---- MODULE Spec2Model ----
(***************************************************************************)
(* Model of huffman.py: the module-level forest `nodes`, the three stages  *)
(* calculate_frequencies, build_huffman_tree, generate_huffman_codes, and  *)
(* the driver huffman_encoding.  A behaviour is one Python process that    *)
(* holds one input text `word` and calls the module's functions on it one  *)
(* or more times, either through huffman_encoding (which rebinds `nodes`   *)
(* to an empty list first) or stage by stage (which does not).             *)
(***************************************************************************)
EXTENDS Integers, Sequences, FiniteSets

\* ------------------------------------------------------------------ bounds
NumSyms == 4        \* distinct symbols available to the input text
MaxLen == 6         \* longest input text
MaxRuns == 2        \* pipeline runs of one process
MaxCodeLen == 4     \* longest code word of the reference prefix codes

\* ------------------------------------------------------------- data model
Alphabet == <<"a", "b", "c", "d", "e", "f", "g">>
Symbols == {Alphabet[k] : k \in 1..NumSyms}
SymIndex(c) == CHOOSE k \in 1..Len(Alphabet) : Alphabet[k] = c

\* Python's None, as a node and as Node.char
None == [isNone |-> TRUE]
NoChar == "None"

\* Node.__init__(char, freq): left and right start as None
Node(char, freq) == [char |-> char, freq |-> freq, left |-> None, right |-> None]

\* the empty dict {}
EmptyDict == [x \in {} |-> 0]
\* d[k] = v on a dict
DictSet(d, k, v) == [x \in (DOMAIN d) \cup {k} |-> IF x = k THEN v ELSE d[x]]

\* Input texts.  The code looks at symbols only through equality (`not in`,
\* str.count, dict keys), so texts are taken up to renaming of symbols: the
\* k-th new symbol of a text is Alphabet[k].
FirstOccurrenceOrdered(w) ==
    \A k \in 1..Len(w) :
        \/ SymIndex(w[k]) = 1
        \/ \E j \in 1..(k - 1) : SymIndex(w[j]) = SymIndex(w[k]) - 1
Words ==
    {w \in UNION {[1..n -> Symbols] : n \in 0..MaxLen} : FirstOccurrenceOrdered(w)}

\* (variant: every symbol is given the count 1)
CountOne(w, char) == 1

\* word.count(char)
Count(w, char) == Cardinality({k \in 1..Len(w) : w[k] = char})

\* ------------------------------------------------------------------ state
VARIABLES
    word,         \* the input text the caller passes
    pc,           \* "idle", "count", "build", "generate", "done", "error"
    entry,        \* how the current run was started
    nodes,        \* the module-level list `nodes` (the forest)
    i,            \* position of the `for char in word` loop
    frequencies,  \* the dict local to calculate_frequencies
    root,         \* the node build_huffman_tree returned
    codes,        \* the dict generate_huffman_codes fills
    err,          \* the exception that ended the process, or "none"
    results       \* the code mappings the caller got back, in order

vars == <<word, pc, entry, nodes, i, frequencies, root, codes, err, results>>

Init ==
    /\ word \in Words
    /\ pc = "idle"
    /\ entry = "none"
    /\ nodes = <<>>
    /\ i = 0
    /\ frequencies = EmptyDict
    /\ root = None
    /\ codes = None
    /\ err = "none"
    /\ results = <<>>

\* ----------------------------------------------------------- variants
\* Each definition of this kind is a faulty version of the definition that
\* follows it, used to show that a property depends on that definition.

\* --------------------------------------------------------------- sorting
\* list.sort(key=lambda x: x.freq) is stable: equal keys keep their order.
\* (variant: an unstable sort, a node goes before the nodes of equal weight)
RECURSIVE InsertBeforeEqual(_, _)
InsertBeforeEqual(s, n) ==
    IF s = <<>> THEN <<n>>
    ELSE IF Head(s).freq < n.freq
         THEN <<Head(s)>> \o InsertBeforeEqual(Tail(s), n)
         ELSE <<n>> \o s

RECURSIVE InsertByFreq(_, _)
InsertByFreq(s, n) ==
    IF s = <<>> THEN <<n>>
    ELSE IF Head(s).freq <= n.freq
         THEN <<Head(s)>> \o InsertByFreq(Tail(s), n)
         ELSE <<n>> \o s

\* (variant: the sort is left out)
Unsorted(s) == s

RECURSIVE SortByFreq(_)
SortByFreq(s) ==
    IF s = <<>> THEN <<>>
    ELSE InsertByFreq(SortByFreq(SubSeq(s, 1, Len(s) - 1)), s[Len(s)])

\* (variant: the merged node takes the weight of its left child alone)
MergedNodeLeftWeight(left, right) ==
    [char |-> NoChar, freq |-> left.freq, left |-> left, right |-> right]

\* one iteration of the while loop of build_huffman_tree
MergedNode(left, right) ==
    [char |-> NoChar, freq |-> left.freq + right.freq, left |-> left, right |-> right]

MergeStep(forest) ==
    LET sorted == SortByFreq(forest)
        left == sorted[1]
        right == sorted[2]
    IN  Append(SubSeq(sorted, 3, Len(sorted)), MergedNode(left, right))

\* ------------------------------------------------------- code generation
\* (variant: the test `node.char is not None` is left out)
RECURSIVE GenerateCodesEveryNode(_, _, _)
GenerateCodesEveryNode(node, current_code, cs) ==
    IF node = None THEN cs
    ELSE LET own == DictSet(cs, node.char, current_code)
             afterLeft == GenerateCodesEveryNode(node.left, Append(current_code, 0), own)
         IN  GenerateCodesEveryNode(node.right, Append(current_code, 1), afterLeft)

\* (variant: the right edge adds no bit)
RECURSIVE GenerateCodesRightBare(_, _, _)
GenerateCodesRightBare(node, current_code, cs) ==
    IF node = None THEN cs
    ELSE LET own == IF node.char # NoChar
                    THEN DictSet(cs, node.char, current_code)
                    ELSE cs
             afterLeft == GenerateCodesRightBare(node.left, Append(current_code, 0), own)
         IN  GenerateCodesRightBare(node.right, current_code, afterLeft)

RECURSIVE GenerateHuffmanCodes(_, _, _)
GenerateHuffmanCodes(node, current_code, cs) ==
    IF node = None THEN cs
    ELSE LET own == IF node.char # NoChar
                    THEN DictSet(cs, node.char, current_code)
                    ELSE cs
             afterLeft == GenerateHuffmanCodes(node.left, Append(current_code, 0), own)
         IN  GenerateHuffmanCodes(node.right, Append(current_code, 1), afterLeft)

\* ---------------------------------------------------------------- actions
\* huffman_encoding(word): nodes = [] and the call of calculate_frequencies
HuffmanEncodingCall ==
    /\ pc = "idle"
    /\ Len(results) < MaxRuns
    /\ nodes' = <<>>
    /\ entry' = "huffman_encoding"
    /\ pc' = "count"
    /\ i' = 1
    /\ frequencies' = EmptyDict
    /\ root' = None
    /\ codes' = None
    /\ UNCHANGED <<word, err, results>>

\* calculate_frequencies(word) called directly: `nodes` keeps what it holds
PipelineCall ==
    /\ pc = "idle"
    /\ Len(results) < MaxRuns
    /\ entry' = "pipeline"
    /\ pc' = "count"
    /\ i' = 1
    /\ frequencies' = EmptyDict
    /\ root' = None
    /\ codes' = None
    /\ UNCHANGED <<word, nodes, err, results>>

\* generate_huffman_codes(None, '', {}) called directly
GenerateNoneCall ==
    /\ pc = "idle"
    /\ Len(results) < MaxRuns
    /\ entry' = "generate_huffman_codes"
    /\ pc' = "generate"
    /\ root' = None
    /\ codes' = EmptyDict
    /\ UNCHANGED <<word, nodes, i, frequencies, err, results>>

\* one iteration of `for char in word`
CalculateFrequenciesStep ==
    /\ pc = "count"
    /\ i <= Len(word)
    /\ LET char == word[i]
       IN  IF char \notin DOMAIN frequencies
           THEN LET freq == Count(word, char)
                IN  /\ frequencies' = DictSet(frequencies, char, freq)
                    /\ nodes' = Append(nodes, Node(char, freq))
           ELSE UNCHANGED <<frequencies, nodes>>
    /\ i' = i + 1
    /\ UNCHANGED <<word, pc, entry, root, codes, err, results>>

\* the loop is exhausted; calculate_frequencies returns
CalculateFrequenciesReturn ==
    /\ pc = "count"
    /\ i > Len(word)
    /\ pc' = "build"
    /\ UNCHANGED <<word, entry, nodes, i, frequencies, root, codes, err, results>>

\* one iteration of `while len(nodes) > 1`
BuildMerge ==
    /\ pc = "build"
    /\ Len(nodes) > 1
    /\ nodes' = MergeStep(nodes)
    /\ UNCHANGED <<word, pc, entry, i, frequencies, root, codes, err, results>>

\* (variant: an empty forest yields None as the root instead of an error)
BuildReturnNone ==
    /\ pc = "build"
    /\ Len(nodes) <= 1
    /\ root' = IF nodes = <<>> THEN None ELSE nodes[1]
    /\ codes' = EmptyDict
    /\ pc' = "generate"
    /\ UNCHANGED <<word, entry, nodes, i, frequencies, err, results>>

\* `return nodes[0]`, then `codes = {}` in the caller; nodes[0] of an empty
\* list raises IndexError, which nothing catches
BuildReturn ==
    /\ pc = "build"
    /\ Len(nodes) <= 1
    /\ IF nodes = <<>>
       THEN /\ err' = "IndexError"
            /\ pc' = "error"
            /\ UNCHANGED <<root, codes>>
       ELSE /\ root' = nodes[1]
            /\ codes' = EmptyDict
            /\ pc' = "generate"
            /\ UNCHANGED err
    /\ UNCHANGED <<word, entry, nodes, i, frequencies, results>>

\* generate_huffman_codes(root, '', codes), the whole recursion
GenerateCodes ==
    /\ pc = "generate"
    /\ codes' = GenerateHuffmanCodes(root, <<>>, codes)
    /\ pc' = "done"
    /\ UNCHANGED <<word, entry, nodes, i, frequencies, root, err, results>>

\* `return codes`: the caller keeps the mapping of a pipeline run
Return ==
    /\ pc = "done"
    /\ results' = IF entry = "generate_huffman_codes" THEN results
                  ELSE Append(results, codes)
    /\ pc' = "idle"
    /\ UNCHANGED <<word, entry, nodes, i, frequencies, root, codes, err>>

Next ==
    \/ HuffmanEncodingCall
    \/ PipelineCall
    \/ GenerateNoneCall
    \/ CalculateFrequenciesStep
    \/ CalculateFrequenciesReturn
    \/ BuildMerge
    \/ BuildReturn
    \/ GenerateCodes
    \/ Return

Spec == Init /\ [][Next]_vars
\* ------------------------------------------------- vocabulary of the claims
\* the distinct symbols of a text and the occurrences of one of them
DistinctSyms(w) == {w[k] : k \in 1..Len(w)}

RECURSIVE Occurrences(_, _)
Occurrences(w, c) ==
    IF w = <<>> THEN 0
    ELSE (IF Head(w) = c THEN 1 ELSE 0) + Occurrences(Tail(w), c)

RECURSIVE SumFreq(_)
SumFreq(forest) ==
    IF forest = <<>> THEN 0 ELSE Head(forest).freq + SumFreq(Tail(forest))

RECURSIVE SumValues(_)
SumValues(d) ==
    IF DOMAIN d = {} THEN 0
    ELSE LET k == CHOOSE x \in DOMAIN d : TRUE
         IN  d[k] + SumValues([x \in (DOMAIN d) \ {k} |-> d[x]])

IsLeaf(n) == n.char # NoChar /\ n.left = None /\ n.right = None

\* the run in progress began with an empty forest: huffman_encoding empties
\* it, and a stage-by-stage run finds it empty when no run came before
StartedEmpty ==
    \/ entry = "huffman_encoding"
    \/ entry = "pipeline" /\ results = <<>>

IsPrefix(s, t) == Len(s) <= Len(t) /\ SubSeq(t, 1, Len(s)) = s

\* ------------------------------------------------------------------ claims
\* C9 (frequency counting): while calculate_frequencies runs on a forest that
\* was empty, the forest holds exactly one leaf per distinct symbol scanned so
\* far, in order of first occurrence, each with the number of occurrences of
\* its symbol in the whole text; the local dict agrees with it; and once the
\* loop is exhausted the leaves cover every distinct symbol and their
\* frequencies sum to the length of the text (none for the empty text).
FrequencyCounting ==
    (pc = "count" /\ StartedEmpty) =>
        LET seen == {word[k] : k \in 1..(i - 1)}
        IN  /\ Len(nodes) = Cardinality(seen)
            /\ \A n \in 1..Len(nodes) :
                   /\ IsLeaf(nodes[n])
                   /\ nodes[n].char \in seen
                   /\ nodes[n].freq = Occurrences(word, nodes[n].char)
                   /\ \A m \in 1..Len(nodes) :
                          nodes[m].char = nodes[n].char => m = n
            /\ DOMAIN frequencies = seen
            /\ \A c \in seen : frequencies[c] = Occurrences(word, c)
            /\ i > Len(word) =>
                   /\ seen = DistinctSyms(word)
                   /\ SumFreq(nodes) = Len(word)
                   /\ (word = <<>> => nodes = <<>> /\ frequencies = EmptyDict)

FrequencyCountingWitness ==
    /\ pc = "count"
    /\ StartedEmpty
    /\ i > Len(word)
    /\ Len(nodes) >= 3
    /\ \E n \in 1..Len(nodes) : nodes[n].freq >= 2

\* C6 (round-trip coverage): the keys of the mapping huffman_encoding returns
\* for a non-empty text are exactly the distinct symbols of the text.
RoundTripCoverage ==
    (pc = "done" /\ entry = "huffman_encoding" /\ word # <<>>) =>
        DOMAIN codes = DistinctSyms(word)

RoundTripCoverageWitness ==
    /\ pc = "done"
    /\ entry = "huffman_encoding"
    /\ Cardinality(DistinctSyms(word)) >= 3
    /\ Len(word) > Cardinality(DistinctSyms(word))
    /\ DOMAIN codes = DistinctSyms(word)

\* C2 (prefix-free): in the mapping huffman_encoding returns for a text with
\* at least 2 distinct symbols, no symbol's code is a prefix of, or equal to,
\* another symbol's code.
PrefixFree ==
    (pc = "done" /\ entry = "huffman_encoding"
                 /\ Cardinality(DistinctSyms(word)) >= 2) =>
        \A a \in DOMAIN codes : \A b \in (DOMAIN codes) \ {a} :
            ~IsPrefix(codes[a], codes[b])

PrefixFreeWitness ==
    /\ pc = "done"
    /\ entry = "huffman_encoding"
    /\ Cardinality(DOMAIN codes) >= 3
    /\ \E a \in DOMAIN codes : \E b \in DOMAIN codes :
           Len(codes[a]) < Len(codes[b])

\* C7 (total weight): on a run that began with an empty forest, the weights
\* of the forest sum to the sum of the frequency values before, between and
\* after the merges, and the root build_huffman_tree returns has that weight.
TotalWeight ==
    /\ (pc = "build" /\ StartedEmpty) => SumFreq(nodes) = SumValues(frequencies)
    /\ (pc \in {"generate", "done"} /\ entry \in {"huffman_encoding", "pipeline"}
                                     /\ StartedEmpty) =>
           /\ root.freq = SumValues(frequencies)
           /\ root.freq = Len(word)

TotalWeightWitness ==
    /\ pc = "generate"
    /\ StartedEmpty
    /\ Cardinality(DOMAIN frequencies) >= 3
    /\ root.freq = SumValues(frequencies)
    /\ root.freq >= 5
\* every node of the tree is a leaf with a symbol and no child, or an internal
\* node with no symbol and two children
RECURSIVE FullTree(_)
FullTree(n) ==
    \/ IsLeaf(n)
    \/ /\ n.char = NoChar
       /\ n.left # None
       /\ n.right # None
       /\ FullTree(n.left)
       /\ FullTree(n.right)

RECURSIVE Internals(_)
Internals(n) ==
    IF n.left = None /\ n.right = None THEN 0
    ELSE 1 + (IF n.left = None THEN 0 ELSE Internals(n.left))
           + (IF n.right = None THEN 0 ELSE Internals(n.right))

RECURSIVE ForestInternals(_)
ForestInternals(forest) ==
    IF forest = <<>> THEN 0
    ELSE Internals(Head(forest)) + ForestInternals(Tail(forest))

CountIn(s, x) == Cardinality({k \in 1..Len(s) : s[k] = x})

\* nodes[a], nodes[b] are what a merge takes out of `forest`: a is the first
\* position of least weight, b the first position of least weight among the rest
FirstSelected(forest, a) ==
    /\ \A k \in 1..Len(forest) : forest[a].freq <= forest[k].freq
    /\ \A k \in 1..(a - 1) : forest[k].freq > forest[a].freq

SecondSelected(forest, a, b) ==
    /\ b # a
    /\ \A k \in (1..Len(forest)) \ {a} : forest[b].freq <= forest[k].freq
    /\ \A k \in (1..(b - 1)) \ {a} : forest[k].freq > forest[b].freq

MergeStepHolds ==
    (pc = "build" /\ Len(nodes) > 1) =>
        /\ pc' = "build"
        /\ Len(nodes') = Len(nodes) - 1
        /\ LET merged == nodes'[Len(nodes')]
               rest == SubSeq(nodes', 1, Len(nodes') - 1)
           IN  \E a \in 1..Len(nodes) : \E b \in 1..Len(nodes) :
                   /\ FirstSelected(nodes, a)
                   /\ SecondSelected(nodes, a, b)
                   /\ nodes[a].freq <= nodes[b].freq
                   /\ merged.char = NoChar
                   /\ merged.left = nodes[a]
                   /\ merged.right = nodes[b]
                   /\ merged.freq = nodes[a].freq + nodes[b].freq
                   /\ \A k \in 1..Len(nodes) :
                          CountIn(rest, nodes[k]) =
                              CountIn(nodes, nodes[k])
                                  - (IF nodes[k] = nodes[a] THEN 1 ELSE 0)
                                  - (IF nodes[k] = nodes[b] THEN 1 ELSE 0)
        /\ \A k \in 1..Len(nodes') : FullTree(nodes'[k])

LoopExitHolds ==
    /\ (pc = "build" /\ StartedEmpty) =>
           Len(nodes) + ForestInternals(nodes) = Cardinality(DOMAIN frequencies)
    /\ (pc = "build" /\ pc' = "generate") =>
           /\ Len(nodes) = 1
           /\ nodes' = nodes
           /\ root' = nodes[1]
           /\ FullTree(root')
           /\ StartedEmpty =>
                  Internals(root') = Cardinality(DOMAIN frequencies) - 1

\* C10 (merge step): an iteration of the loop of build_huffman_tree on a
\* forest of more than one node takes out the first node of least weight
\* (left) and the first of least weight among the rest (right), appends one
\* internal node with no symbol, those two children and the sum of their
\* weights, and keeps every other node, so the forest shrinks by one and
\* every internal node has two children; on a run that began with an empty
\* forest of k leaves, the merges done so far are k minus the size of the
\* forest, and the loop exits with one root after k - 1 merges.
MergeStepInvariant == [][MergeStepHolds /\ LoopExitHolds]_vars

MergeStepWitness ==
    /\ pc = "generate"
    /\ StartedEmpty
    /\ Internals(root) = 3
    /\ root.left.freq = root.right.freq
    /\ root.left.char = NoChar
    /\ root.right.char = NoChar
\* the weighted length of giving each symbol c of S a code of lens[c] bits
RECURSIVE WeightedLength(_, _)
WeightedLength(S, lens) ==
    IF S = {} THEN 0
    ELSE LET c == CHOOSE x \in S : TRUE
         IN  Occurrences(word, c) * lens[c] + WeightedLength(S \ {c}, lens)

RECURSIVE Pow2(_)
Pow2(n) == IF n = 0 THEN 1 ELSE 2 * Pow2(n - 1)

\* Kraft's inequality, scaled by 2^MaxCodeLen: a prefix code with code lengths
\* lens exists exactly when the sum of 2^(-lens[c]) is at most 1
RECURSIVE KraftSum(_, _)
KraftSum(S, lens) ==
    IF S = {} THEN 0
    ELSE LET c == CHOOSE x \in S : TRUE
         IN  Pow2(MaxCodeLen - lens[c]) + KraftSum(S \ {c}, lens)

\* the code lengths of the prefix codes on S with codes of 1..MaxCodeLen bits
PrefixCodeLengths(S) ==
    {lens \in [S -> 1..MaxCodeLen] : KraftSum(S, lens) <= Pow2(MaxCodeLen)}

CodeLengths(cs) == [c \in DOMAIN cs |-> Len(cs[c])]

\* C1 (optimality): for a text with at least 2 distinct symbols, the weighted
\* length of the mapping huffman_encoding returns, the sum over the symbols
\* of occurrences times code length, is at most that of every prefix code on
\* those symbols (with codes of up to MaxCodeLen bits).
Optimality ==
    (pc = "done" /\ entry = "huffman_encoding"
                 /\ Cardinality(DistinctSyms(word)) >= 2) =>
        LET S == DistinctSyms(word)
            huffman == WeightedLength(S, CodeLengths(codes))
        IN  \A lens \in PrefixCodeLengths(S) : huffman <= WeightedLength(S, lens)

\* a text whose optimal code is strictly better than the balanced 2-bit code
OptimalityWitness ==
    /\ pc = "done"
    /\ entry = "huffman_encoding"
    /\ Cardinality(DistinctSyms(word)) = 4
    /\ LET S == DistinctSyms(word)
       IN  /\ DOMAIN codes = S
           /\ WeightedLength(S, CodeLengths(codes)) < 2 * Len(word)
           /\ \E c \in S : Len(codes[c]) = 3
\* C4 (empty-input failure): build_huffman_tree on an empty forest ends the
\* process with an error (Python's IndexError from nodes[0]) and yields
\* neither a root nor a code mapping, nothing runs after the error, and
\* huffman_encoding on the empty text never gets to code generation.
EmptyInputFails ==
    [][/\ (pc = "build" /\ nodes = <<>>) =>
              /\ pc' = "error"
              /\ err' = "IndexError"
              /\ root' = None
              /\ codes' = None
              /\ results' = results
       /\ (entry' = "huffman_encoding" /\ word = <<>>) =>
              pc' \in {"count", "build", "error"}
       /\ pc # "error"]_vars

EmptyInputFailsWitness ==
    /\ pc = "error"
    /\ entry = "huffman_encoding"
    /\ word = <<>>
    /\ err = "IndexError"
    /\ root = None
    /\ codes = None

\* C3 (single-symbol edge case): for a text with exactly one distinct symbol
\* the mapping huffman_encoding returns has exactly one entry and its code has
\* at least one bit; for "aaaa" the compressed size is 4 bits.
SingleSymbolCodeNonEmpty ==
    (pc = "done" /\ entry = "huffman_encoding"
                 /\ Cardinality(DistinctSyms(word)) = 1) =>
        /\ DOMAIN codes = DistinctSyms(word)
        /\ \A c \in DOMAIN codes : Len(codes[c]) >= 1
        /\ word = <<"a", "a", "a", "a">> =>
               WeightedLength(DOMAIN codes, CodeLengths(codes)) = 4

\* C5 (determinism): the code mappings a process gets from its runs of the
\* pipeline on the same text are all identical.
Determinism ==
    \A m \in 1..Len(results) : \A n \in 1..Len(results) : results[m] = results[n]

\* C8 (null root failure): generate_huffman_codes called with None as root
\* does not return normally.
NullRootFails ==
    (entry = "generate_huffman_codes" /\ root = None) => pc # "done"
====
